---- MODULE Spec2Model ----
(***************************************************************************)
(* Remote Execution Orchestrator of VacLab: the model-run trigger          *)
(* endpoints (isolated route: src/app/api/model-run/route.ts lines         *)
(* 150-484; plain route: src/unnamed/part_000 lines 190-383), their        *)
(* module-level duplicate-execution guard, the eviction timers, the ssh2   *)
(* client callbacks and the streaming writer.                              *)
(*                                                                         *)
(* Strings are sequences of tokens (one token is a character or a word);   *)
(* time is Date.now() in milliseconds.                                     *)
(***************************************************************************)
EXTENDS Integers, Sequences, FiniteSets, TLC

VARIABLES
    now,               \* Date.now(), ms
    ticks,             \* number of fine time steps taken so far
    activeExecutions,  \* [route -> Map userKey -> Date.now() of the acceptance]
    timers,            \* pending setTimeout callbacks: [route, key, due, by]
    req,               \* per request: handler position, client, writer, output
    days,              \* whole days on the clock: Date.now() is days * DAY_MS + now
    auth,              \* per authentication attempt: client, timeout timer, response
    sessionStore,      \* Map token -> SessionData of lib/sessionStore.ts
    hist,              \* history: records as issued, tokens revoked
    answer             \* the latest response of the session route

vars == <<now, ticks, activeExecutions, timers, req,
          days, auth, sessionStore, hist, answer>>

\* The state of the authentication and session routes.
AuthVars == <<days, auth, sessionStore, hist, answer>>
\* The state of the model-run routes besides the clock.
RunVars == <<ticks, activeExecutions, timers, req>>

----------------------------------------------------------------------------
(* Bounds of the model *)

NumRequests == 3       \* requests of a guard run
MaxTicks == 1          \* fine time steps of a run
NumRunRequests == 2    \* requests of a run with its client callbacks
TICK_MS == 2000        \* length of a fine time step
MaxBytes == 3          \* tokens a command writes to its normal channel
MaxErrBytes == 1       \* tokens a command writes to its error channel
NumAttempts == 2       \* authentication attempts of a run
MaxMonths == 2         \* session lifetimes the clock may run through
MaxWeeks == 20         \* weeks the wall clock of a planning run may pass
PLAN_STEP_MS == 4500000 \* coarse step of the wall clock within a day
MaxOver == 2           \* characters by which a run name exceeds MAX_NAME
MaxPrompts == 2        \* prompts of one keyboard-interactive request
MaxRounds == 2         \* keyboard-interactive requests of one connect attempt

(* Program constants *)

TTL_ISOLATED == 2000   \* route.ts:294
TTL_PLAIN == 5000      \* part_000:236
EVICT_MS == 30000      \* route.ts:312, part_000:254
READY_TIMEOUT == 10000 \* route.ts:452, part_000:351
AUTH_TIMEOUT == 10000  \* part_001:31

\* A faulty variant: a readyTimeout longer than the route's own timer.
AUTH_READY_TIMEOUT_LATE == AUTH_TIMEOUT + 2000

AUTH_READY_TIMEOUT == 8000 \* part_001:97
SESSION_DAYS == 30     \* part_001:41
DAY_MS == 86400000     \* part_001:41, 24 * 60 * 60 * 1000

NoExitStatus == 0 - 1  \* stream 'close' with code undefined / null

Routes == {"isolated", "plain"}
Requests == 1 .. NumRequests
RunRequests == 1 .. NumRunRequests

----------------------------------------------------------------------------
(* Strings *)

Str(s) == <<s>>
Whitespace == {" ", "\n"}
SENTINEL == <<"Deactivating", " ", "conda">>
DEFAULT_RUN == <<"DefaultRun">>
DEFAULT_DIR == <<"/tmp">>

Min(a, b) == IF a <= b THEN a ELSE b

\* String.prototype.trim
RECURSIVE TrimLeft(_)
TrimLeft(s) ==
    IF s = <<>> THEN <<>>
    ELSE IF Head(s) \in Whitespace THEN TrimLeft(Tail(s)) ELSE s

RECURSIVE TrimRight(_)
TrimRight(s) ==
    IF s = <<>> THEN <<>>
    ELSE IF s[Len(s)] \in Whitespace THEN TrimRight(SubSeq(s, 1, Len(s) - 1)) ELSE s

Trim(s) == TrimRight(TrimLeft(s))

\* String.prototype.includes
Includes(s, p) ==
    \E i \in 1 .. (Len(s) - Len(p) + 1) : SubSeq(s, i, i + Len(p) - 1) = p

----------------------------------------------------------------------------
(* The trigger's form data *)

\* A JSON value: undefined, a string, or a truthy non-string (number, array,
\* object) with its String() rendering.
UNDEF == [t |-> "undef", s |-> <<>>]
JStr(s) == [t |-> "str", s |-> s]
JOther(s) == [t |-> "other", s |-> s]
Truthy(v) == v.t = "other" \/ (v.t = "str" /\ v.s # <<>>)

EmptyJson ==
    [gitParamsBranchName |-> UNDEF, gitParmsBranchName |-> UNDEF,
     branchName |-> UNDEF, gitParams |-> "absent", gitParamsAlt |-> UNDEF,
     run_name |-> UNDEF, name |-> UNDEF]

NoFile == [present |-> FALSE, name |-> <<>>, parsable |-> FALSE, json |-> EmptyJson]
JsonFile(n, j) == [present |-> TRUE, name |-> n, parsable |-> TRUE, json |-> j]
GarbageFile(n) == [present |-> TRUE, name |-> n, parsable |-> FALSE, json |-> EmptyJson]

DATA_JSON == <<"data", ".", "json">>
MAX_NAME == 50
UnsafeChars == {" ", "\n", "!", ".", "/"}

\* fileEntry.name.replace(/\.[^/.]+$/, "")
StripExt(n) ==
    LET dots == {i \in 1 .. Len(n) - 1 :
                    /\ n[i] = "."
                    /\ \A k \in i + 1 .. Len(n) : n[k] \notin {".", "/"}}
    IN  IF dots = {} THEN n
        ELSE SubSeq(n, 1, (CHOOSE i \in dots : TRUE) - 1)

\* A faulty variant: the pattern without the g flag replaces the first
\* match only.
Sanitize_First(s) ==
    LET bad == {i \in 1 .. Len(s) : s[i] \in {" ", "\n", "!", ".", "/"}}
        m == [i \in 1 .. Len(s) |->
                IF i \in bad /\ \A k \in bad : i <= k THEN "_" ELSE s[i]]
    IN  SubSeq(m, 1, IF Len(m) <= 50 THEN Len(m) ELSE 50)

\* runName.replace(/[^a-zA-Z0-9_-]/g, '_').substring(0, 50)
Sanitize(s) ==
    LET m == [i \in 1 .. Len(s) |-> IF s[i] \in UnsafeChars THEN "_" ELSE s[i]]
    IN  SubSeq(m, 1, Min(Len(m), MAX_NAME))

\* The value assigned to runName before the cleaning step.
RawRunName(f) ==
    LET j == f.json IN
    IF Truthy(j.gitParamsBranchName) THEN j.gitParamsBranchName
    ELSE IF Truthy(j.gitParmsBranchName) THEN j.gitParmsBranchName
    ELSE IF Truthy(j.branchName) THEN j.branchName
    ELSE IF j.gitParams # "absent"
         THEN IF j.gitParams = "object" /\ Truthy(j.gitParamsAlt)
              THEN j.gitParamsAlt ELSE JStr(DEFAULT_RUN)
    ELSE IF Truthy(j.run_name) THEN j.run_name
    ELSE IF Truthy(j.name) THEN j.name
    ELSE IF f.name # <<>> /\ f.name # DATA_JSON THEN JStr(StripExt(f.name))
    ELSE JStr(DEFAULT_RUN)

\* runName as it stands after the try/catch around the extraction: the
\* default without a file or on a JSON.parse failure; the cleaned name for
\* a string; the raw value when .replace throws on a non-string.
RunNameOf(f) ==
    IF ~f.present \/ ~f.parsable THEN DEFAULT_RUN
    ELSE LET raw == RawRunName(f)
         IN  IF raw.t = "str" THEN Sanitize(raw.s) ELSE raw.s

\* connectionDetails: absent or unparsable leaves ip, hostname and password
\* undefined (the empty string stands for every falsy value).
NoConn == [ip |-> <<>>, hostname |-> <<>>, password |-> <<>>]
Conn(i, h, p) == [ip |-> i, hostname |-> h, password |-> p]

\* A faulty variant of the test: the password is not checked.
MissingParams_NoSecret(c) == c.ip = <<>> \/ c.hostname = <<>>

\* !ip || !hostname || !password
MissingParams(c) == c.ip = <<>> \/ c.hostname = <<>> \/ c.password = <<>>

Input(rt, c, f, d) == [route |-> rt, conn |-> c, file |-> f, remoteDir |-> d]

\* formData.get('remoteDir') || '/tmp'
RemoteDirOf(in) == IF in.remoteDir = <<>> THEN DEFAULT_DIR ELSE in.remoteDir

\* userKey
UserKey(in, runName) ==
    IF in.route = "isolated"
    THEN in.conn.hostname \o <<"-">> \o runName
    ELSE in.conn.hostname \o <<"-">> \o RemoteDirOf(in)

TTL(rt) == IF rt = "isolated" THEN TTL_ISOLATED ELSE TTL_PLAIN

\* sshClient.connect({host, username, password, port: 22, readyTimeout: 10000})
\* of both trigger routes names no keepaliveInterval: the client sends no
\* keepalive (interval 0) and counts no missed beats.
KeepaliveInterval(rt) == 0

----------------------------------------------------------------------------
(* The isolation planner: timestamp, folder name, paths *)

\* The local wall-clock time of the model's time zero (days = 0, now = 0):
\* 2024-06-01T14:05; month is 0-based as getMonth() returns it.
EPOCH == [year |-> 2024, month |-> 5, date |-> 1, hours |-> 14, minutes |-> 5]

\* The calendar date n days after the date d of month m (0-based) of year y.
RECURSIVE AddDays(_, _, _, _)
AddDays(y, m, d, n) ==
    LET leap == (y % 4 = 0 /\ y % 100 # 0) \/ y % 400 = 0
        monthLen == IF m = 1 THEN (IF leap THEN 29 ELSE 28)
                    ELSE IF m \in {3, 5, 8, 10} THEN 30 ELSE 31
    IN  IF n = 0 THEN [year |-> y, month |-> m, date |-> d]
        ELSE IF d < monthLen THEN AddDays(y, m, d + 1, n - 1)
        ELSE IF m < 11 THEN AddDays(y, m + 1, 1, n - 1)
        ELSE AddDays(y + 1, 0, 1, n - 1)

\* new Date(): the local calendar fields of the clock value t.
DateOf(t) ==
    LET tm == EPOCH.hours * 60 + EPOCH.minutes + (t.ms \div 60000)
        cal == AddDays(EPOCH.year, EPOCH.month, EPOCH.date, t.day + (tm \div 1440))
    IN  [year |-> cal.year, month |-> cal.month, date |-> cal.date,
         hours |-> (tm \div 60) % 24, minutes |-> tm % 60]

\* Number.prototype.toString() of a non-negative integer
RECURSIVE NumToString(_)
NumToString(n) ==
    LET digits == <<"0", "1", "2", "3", "4", "5", "6", "7", "8", "9">>
    IN  IF n < 10 THEN <<digits[n + 1]>>
        ELSE NumToString(n \div 10) \o <<digits[(n % 10) + 1]>>

\* A faulty variant: no padding.
PadStart2_None(s) == s

\* s.padStart(2, '0')
PadStart2(s) ==
    IF Len(s) >= 2 THEN s
    ELSE IF Len(s) = 1 THEN <<"0">> \o s ELSE <<"0", "0">>

\* s.slice(-2)
SliceLast2(s) == IF Len(s) <= 2 THEN s ELSE SubSeq(s, Len(s) - 1, Len(s))

\* timestamp: `${month}_${day}_${year}-${hours}_${minutes}`
Timestamp(d) ==
    PadStart2(NumToString(d.month + 1)) \o <<"_">> \o PadStart2(NumToString(d.date))
    \o <<"_">> \o SliceLast2(NumToString(d.year)) \o <<"-">>
    \o PadStart2(NumToString(d.hours)) \o <<"_">> \o PadStart2(NumToString(d.minutes))

\* isolatedFolderName: `${runName}-${timestamp}`
IsolatedFolderName(runName, d) == runName \o <<"-">> \o Timestamp(d)

\* isolatedPath: `/home/${hostname}/${isolatedFolderName}`
IsolatedPath(hostname, folder) == <<"/", "home", "/">> \o hostname \o <<"/">> \o folder

\* sourcePath: `/home/${hostname}/loading`
SourcePath(hostname) == <<"/", "home", "/">> \o hostname \o <<"/", "loading">>

\* The handler's plan for a request past validation: lines 267-279.
Plan(in, runName, t) ==
    LET folder == IsolatedFolderName(runName, DateOf(t))
    IN  [date |-> DateOf(t), folder |-> folder,
         path |-> IsolatedPath(in.conn.hostname, folder),
         source |-> SourcePath(in.conn.hostname)]

NoPlan == [date |-> EPOCH, folder |-> <<>>, path |-> <<>>, source |-> <<>>]

----------------------------------------------------------------------------
(* The command pipeline and the remote shell that runs it *)

\* A faulty variant: the copy line without its fallback.
Commands_NoFallback ==
    << <<"mkdir">>, <<"cp">>, <<"cd">>, <<"echo created">>, <<"echo copied">>,
       <<"echo pwd">>, <<"echo starting">>, <<"source">> >>

\* commands: each entry a shell command line, as words; the second is
\* `cp -r ... 2>/dev/null || echo "Warning: ..."`.
Commands ==
    << <<"mkdir">>, <<"cp", "||", "echo Warning">>, <<"cd">>, <<"echo created">>,
       <<"echo copied">>, <<"echo pwd">>, <<"echo starting">>, <<"source">> >>

\* Array.prototype.join
RECURSIVE Join(_, _)
Join(entries, sep) ==
    IF entries = <<>> THEN <<>>
    ELSE IF Len(entries) = 1 THEN Head(entries)
    ELSE Head(entries) \o <<sep>> \o Join(Tail(entries), sep)

\* A faulty variant: the lines are joined with ';'.
FullCommand_Semicolons == Join(Commands, ";")

\* fullCommand = commands.join(' && '): commands at the odd positions,
\* list operators at the even ones.
FullCommand == Join(Commands, "&&")

\* The remote shell running a list: the position of the next command, the
\* exit status so far, the commands run and those that exited non-zero.
NoShell == [pos |-> 1, status |-> 0, ran |-> <<>>, failed |-> {}]

\* The shell runs the command at pos when it is the first, follows && after
\* a zero status, follows || after a non-zero status, or follows ';'.
ShellRuns(full, sh) ==
    LET op == IF sh.pos = 1 THEN "first" ELSE full[sh.pos - 1]
    IN  \/ op = "first"
        \/ op = "&&" /\ sh.status = 0
        \/ op = "||" /\ sh.status # 0
        \/ op = ";"

\* One step of the shell: the command at pos is run and exits with st, or
\* is skipped and leaves the status as it is.
ShellAdvance(full, sh, st) ==
    IF ShellRuns(full, sh)
    THEN [pos |-> sh.pos + 2, status |-> st, ran |-> Append(sh.ran, full[sh.pos]),
          failed |-> IF st # 0 THEN sh.failed \cup {full[sh.pos]} ELSE sh.failed]
    ELSE [sh EXCEPT !.pos = @ + 2]

----------------------------------------------------------------------------
(* The duplicate-execution guard *)

\* Faulty variants of the guard's test: no test at all; an inclusive window.
GuardRejects_Never(map, key, t, ttl) == FALSE

GuardRejects_Inclusive(map, key, t, ttl) ==
    key \in DOMAIN map /\ t - map[key] <= ttl

\* activeExecutions.has(userKey) && Date.now() - activeExecutions.get(userKey) < ttl
GuardRejects(map, key, t, ttl) ==
    key \in DOMAIN map /\ t - map[key] < ttl

\* activeExecutions.set(userKey, Date.now())
MapSet(map, key, t) ==
    [k \in DOMAIN map \cup {key} |-> IF k = key THEN t ELSE map[k]]

\* activeExecutions.delete(userKey)
MapDelete(map, key) == [k \in DOMAIN map \ {key} |-> map[k]]

EmptyMap == [k \in {} |-> 0]

\* A faulty variant: the duplicate branch refreshes the entry and its timer.
GuardStep_RefreshOnReject(map, key, t, ttl) ==
    [accepted |-> ~(key \in DOMAIN map /\ t - map[key] < ttl),
     map |-> [k \in DOMAIN map \cup {key} |-> IF k = key THEN t ELSE map[k]],
     timer |-> TRUE]

\* A faulty variant: the accepted branch schedules no eviction.
GuardStep_NoTimer(map, key, t, ttl) ==
    IF key \in DOMAIN map /\ t - map[key] < ttl
    THEN [accepted |-> FALSE, map |-> map, timer |-> FALSE]
    ELSE [accepted |-> TRUE,
          map |-> [k \in DOMAIN map \cup {key} |-> IF k = key THEN t ELSE map[k]],
          timer |-> FALSE]

\* Lines 289-312 of the isolated route (231-254 of the plain one): the
\* decision, the map after it, and whether an eviction timer is scheduled.
GuardStep(map, key, t, ttl) ==
    IF GuardRejects(map, key, t, ttl)
    THEN [accepted |-> FALSE, map |-> map, timer |-> FALSE]
    ELSE [accepted |-> TRUE, map |-> MapSet(map, key, t), timer |-> TRUE]

\* setTimeout(() => activeExecutions.delete(userKey), 30000)
EvictionTimer(rt, key, t, r) ==
    [route |-> rt, key |-> key, due |-> t + EVICT_MS, by |-> r]

----------------------------------------------------------------------------
(* Output events, the writer and the ssh2 client of one request *)

Never == 0 - 1       \* no acceptance time / no guard entry seen
NotClosed == 0 - 2   \* the command stream has not closed

ExitCodes == {0, 1, 2, NoExitStatus}

\* `${code}`
CodeStr(code) ==
    CASE code = 0 -> "0"
      [] code = 1 -> "1"
      [] code = 2 -> "2"
      [] OTHER -> "null"

Ev(type, text, arg) == [type |-> type, text |-> text, arg |-> arg]

Terminals == {"success", "error"}

NewReq ==
    [pc |-> "parsing", inp |-> Input("isolated", NoConn, NoFile, <<>>),
     runName |-> <<>>, key |-> <<>>, resp |-> 0, at |-> Never, seen |-> Never,
     client |-> "none", chan |-> "none", connectCalls |-> 0, endCalls |-> 0,
     closeRequested |-> FALSE, writer |-> "none", out |-> <<>>,
     closeCalls |-> 0, rejected |-> 0, resolved |-> FALSE,
     sent |-> <<>>, errSent |-> <<>>, code |-> NotClosed, fault |-> FALSE,
     faultKind |-> "none", day |-> 0, shell |-> NoShell, caller |-> "reading",
     silent |-> FALSE,
     peers |-> {}, running |-> {}, began |-> Never]

\* writer.write(encoder.encode(JSON.stringify(ev) + '\n')): enqueued while the
\* writer is open, rejected once it is closed.
Write(q, ev) ==
    IF q.writer = "open"
    THEN [q EXCEPT !.out = Append(@, ev)]
    ELSE [q EXCEPT !.rejected = @ + 1]

\* writer.close().catch(console.error)
CloseWriter(q) == [q EXCEPT !.writer = "closed", !.closeCalls = @ + 1]

\* sshClient.end()
EndClient(q) ==
    [q EXCEPT !.endCalls = @ + 1,
              !.client = IF @ \in {"connecting", "ready"} THEN "ended" ELSE @]

Resolve(q) == [q EXCEPT !.resolved = TRUE]

\* The 400 response for missing parameters.
Respond400(q, in, rn) ==
    [q EXCEPT !.pc = "responded", !.resp = 400, !.inp = in, !.runName = rn]

\* The 429 response of the duplicate branch.
Respond429(q, in, rn, key, t, seen) ==
    [q EXCEPT !.pc = "responded", !.resp = 429, !.inp = in, !.runName = rn, !.key = key,
              !.at = t, !.seen = seen]

\* The accepted branch: the TransformStream writer, then sshTask() up to
\* sshClient.connect(), then the streaming Response.
StartTask(q, in, rn, key, t, seen) ==
    [q EXCEPT !.pc = "responded", !.resp = 200, !.inp = in, !.runName = rn, !.key = key,
              !.at = t, !.seen = seen, !.writer = "open",
              !.client = "connecting", !.connectCalls = @ + 1]

\* sshClient.on('ready'): the status lines, then sshClient.exec(...).
OnReady(q) ==
    LET a == Write(q, Ev("status", "SSH Connection established", <<>>))
        b == IF q.inp.route = "isolated"
             THEN Write(Write(Write(a,
                    Ev("status", "Creating isolated execution environment", <<>>)),
                    Ev("status", "Setting up isolated environment", <<>>)),
                    Ev("status", "Copying files", <<>>))
             ELSE a
    IN  [b EXCEPT !.client = "ready", !.chan = "pending"]

\* exec callback, err branch
OnExecError(q) ==
    Resolve(EndClient(Write([q EXCEPT !.chan = "failed"],
        Ev("error", "Error executing command", <<>>))))

\* exec callback, stream branch: the status line; the handlers are attached.
OnExecStream(q) ==
    Write([q EXCEPT !.chan = "open"], Ev("status", "Command running", <<>>))

\* A faulty variant: a missing exit status counts as success (!code).
TerminalEvent_Falsy(code) ==
    IF code <= 0
    THEN [type |-> "success", text |-> "completed successfully", arg |-> <<>>]
    ELSE [type |-> "error", text |-> "failed with exit code", arg |-> <<CodeStr(code)>>]

\* The event stream.on('close') writes for an exit status.
TerminalEvent(code) ==
    IF code = 0
    THEN Ev("success", "completed successfully", <<>>)
    ELSE Ev("error", "failed with exit code", <<CodeStr(code)>>)

\* stream.on('close', (code, signal) => ...)
OnClose(q, code) ==
    Resolve(CloseWriter(EndClient(
        Write([q EXCEPT !.chan = "closed", !.code = code], TerminalEvent(code)))))

\* dataString.includes("Deactivating conda")
SentinelSeen(dataString) == Includes(dataString, SENTINEL)

\* A faulty variant: output is held back instead of written on arrival.
OnData_Held(q, data) ==
    [q EXCEPT !.sent = @ \o data,
              !.closeRequested = @ \/ Includes(TrimRight(TrimLeft(data)), SENTINEL)]

\* stream.on('data', data => ...)
OnData(q, data) ==
    LET dataString == Trim(data)
        a == IF dataString # <<>>
             THEN Write(q, Ev("stdout", "", dataString)) ELSE q
    IN  [a EXCEPT !.sent = @ \o data,
                  !.closeRequested = @ \/ SentinelSeen(dataString)]

\* stream.stderr.on('data', data => ...)
OnErrData(q, data) ==
    LET dataString == Trim(data)
        a == IF dataString # <<>>
             THEN Write(q, Ev("stderr", "", dataString)) ELSE q
    IN  [a EXCEPT !.errSent = @ \o data]

\* A faulty variant: the error event does not carry err.message.
OnError_Unclassified(q, kind) ==
    [(IF q.writer = "open"
      THEN [q EXCEPT !.out = Append(@,
               [type |-> "error", text |-> "SSH connection error", arg |-> <<>>])]
      ELSE [q EXCEPT !.rejected = @ + 1])
     EXCEPT !.client = "lost", !.fault = TRUE,
            !.faultKind = IF @ = "none" THEN kind ELSE @,
            !.writer = "closed", !.closeCalls = @ + 1, !.resolved = TRUE]

\* sshClient.on('error', err => ...)
OnError(q, kind) ==
    Resolve(CloseWriter(Write(
        [q EXCEPT !.client = "lost", !.fault = TRUE,
                  !.faultKind = IF @ = "none" THEN kind ELSE @],
        Ev("error", "SSH connection error", <<kind>>))))

\* A faulty variant: the caller's disconnect aborts the run.
OnCaller_Aborts(q, what) ==
    IF what = "gone"
    THEN [q EXCEPT !.caller = "gone", !.closeRequested = TRUE, !.endCalls = @ + 1,
                   !.client = IF @ \in {"connecting", "ready"} THEN "ended" ELSE @,
                   !.writer = IF @ = "open" THEN "errored" ELSE @]
    ELSE [q EXCEPT !.caller = what]

\* The caller of new Response(stream.readable): it stops reading, and the
\* chunks written stay queued in the TransformStream; or it disconnects, the
\* readable side is cancelled and the writable side is errored, so that
\* every later write is rejected. The handler registers nothing for either
\* (no request.signal listener, no cancel callback).
OnCaller(q, what) ==
    [q EXCEPT !.caller = what,
              !.writer = IF what = "gone" /\ @ = "open" THEN "errored" ELSE @]

----------------------------------------------------------------------------
(* The authentication route and the session store *)

Attempts == 1 .. NumAttempts

\* A point in time: Date.now() = day * DAY_MS + ms, with ms below DAY_MS.
Time(d, ms) == [day |-> d, ms |-> ms]
Later(a, b) == a.day > b.day \/ (a.day = b.day /\ a.ms > b.ms)

\* Date.now() + (30 * 24 * 60 * 60 * 1000)
ExpiryFrom(t) == Time(t.day + SESSION_DAYS, t.ms)

\* A request body without a session token (undefined, null or '').
NoToken == 0
TokenArgs == 0 .. NumAttempts

\* A request whose body request.json() cannot read as an object (no body,
\* malformed JSON, null): the handler's catch branch answers it.
BadBody == 0 - 1
Bodies == TokenArgs \cup {BadBody}

\* generateSessionToken(): 32 random bytes; the token of attempt a is a fresh
\* value, written a.
TokenOf(a) == a

NoData == [ip |-> <<>>, hostname |-> <<>>, expiresAt |-> Time(0 - 1, 0)]
SessionData(ip, hostname, expiresAt) ==
    [ip |-> ip, hostname |-> hostname, expiresAt |-> expiresAt]

EmptyStore == [k \in {} |-> NoData]

\* A faulty variant: the record keeps the secret next to the identity.
SessionRecord_WithSecret(inp, expiresAt) ==
    [ip |-> inp.ip, hostname |-> inp.hostname \o inp.password, expiresAt |-> expiresAt]

\* The record the auth route stores for a request body: { ip, hostname,
\* expiresAt }.
SessionRecord(inp, expiresAt) == SessionData(inp.ip, inp.hostname, expiresAt)

\* sessionStore.set(token, data)
setSession(store, token, data) ==
    [k \in DOMAIN store \cup {token} |-> IF k = token THEN data ELSE store[k]]

\* sessionStore.get(token): NoData stands for undefined
getSession(store, token) ==
    IF token \in DOMAIN store THEN store[token] ELSE NoData

\* sessionStore.delete(token)
deleteSession(store, token) == [k \in DOMAIN store \ {token} |-> store[k]]

NoResponse == [status |-> 0, body |-> "none", token |-> NoToken, data |-> NoData]
Response(status, body, token, data) ==
    [status |-> status, body |-> body, token |-> token, data |-> data]

NewAttempt ==
    [pc |-> "idle", inp |-> [ip |-> <<>>, hostname |-> <<>>, password |-> <<>>],
     started |-> 0, conn |-> "none", timer |-> "none", endCalls |-> 0,
     resp |-> NoResponse, ran |-> <<>>, answers |-> <<>>]

\* resolve(response): the promise takes the first value it is given.
ResolveWith(a, response) ==
    IF a.resp = NoResponse THEN [a EXCEPT !.resp = response] ELSE a

\* clearTimeout(timeoutId)
ClearTimer(a) == [a EXCEPT !.timer = IF @ = "pending" THEN "cleared" ELSE @]

\* conn.end()
EndConn(a) ==
    [a EXCEPT !.endCalls = @ + 1,
              !.conn = IF @ \in {"connecting", "ready"} THEN "ended" ELSE @]

\* POST up to conn.connect(): the timeout timer is armed, the handlers are
\* attached and the client connects.
StartAttempt(a, in, t) ==
    [a EXCEPT !.pc = "waiting", !.inp = in, !.started = t,
              !.conn = "connecting", !.timer = "pending"]

\* conn.on('keyboard-interactive', (name, instructions, lang, prompts, finish)):
\* the list handed to finish() for a request of n prompts.
KeyboardAnswer(password, n) ==
    IF password # <<>> /\ n = 1 THEN <<password>> ELSE <<>>

\* The setTimeout callback of the 10 s timer.
OnAuthTimeout(a) ==
    ResolveWith(EndConn([a EXCEPT !.timer = "fired", !.ran = Append(@, "timeout")]),
                Response(500, "timed out after 10 seconds", NoToken, NoData))

\* A faulty variant: 'ready' leaves the timeout timer armed.
OnAuthReady_TimerLeft(a, token, expiresAt) ==
    LET b == [a EXCEPT !.conn = "ended", !.endCalls = @ + 1,
                       !.ran = Append(@, "ready")]
    IN  IF b.resp = NoResponse
        THEN [b EXCEPT !.resp = [status |-> 200, body |-> "success", token |-> token,
                                 data |-> [ip |-> <<>>, hostname |-> <<>>,
                                           expiresAt |-> expiresAt]]]
        ELSE b

\* conn.on('ready'): the attempt's part (the store is written by the action).
OnAuthReady(a, token, expiresAt) ==
    ResolveWith(
        EndConn(ClearTimer([a EXCEPT !.conn = "ready", !.ran = Append(@, "ready")])),
        Response(200, "success", token, SessionData(<<>>, <<>>, expiresAt)))

AuthErrorKinds == {"authentication", "ECONNREFUSED", "reset", "timeout"}

\* The status and message chosen for err.message.
Classify(kind) ==
    CASE kind = "timeout" -> [status |-> 500, body |-> "Connection timed out"]
      [] kind = "authentication" -> [status |-> 401, body |-> "Invalid credentials"]
      [] kind = "ECONNREFUSED" -> [status |-> 500, body |-> "Connection refused"]
      [] kind = "reset" -> [status |-> 500, body |-> "Connection was reset"]
      [] OTHER -> [status |-> 500, body |-> kind]

\* conn.on('error')
OnAuthError(a, kind) ==
    ResolveWith(
        ClearTimer([a EXCEPT !.ran = Append(@, "error"),
                             !.conn = IF @ = "connecting" THEN "lost" ELSE @]),
        Response(Classify(kind).status, Classify(kind).body, NoToken, NoData))

\* A faulty variant: the lookup swaps host and identity.
SessionView_Swapped(session) ==
    [ip |-> session.hostname, hostname |-> session.ip, expiresAt |-> session.expiresAt]

\* sessionData of the validate response
SessionView(session) ==
    [ip |-> session.ip, hostname |-> session.hostname, expiresAt |-> session.expiresAt]

\* A faulty variant: an expired record is answered 401 but kept.
ValidateStore_Keeps(store, token, t) == store

\* A faulty variant: a successful validation extends the record's expiry.
ValidateStore_Sliding(store, token, t) ==
    IF token = 0 \/ token \notin DOMAIN store THEN store
    ELSE IF t.day > store[token].expiresAt.day
            \/ (t.day = store[token].expiresAt.day /\ t.ms > store[token].expiresAt.ms)
         THEN [k \in DOMAIN store \ {token} |-> store[k]]
         ELSE [store EXCEPT ![token].expiresAt = [day |-> t.day + SESSION_DAYS, ms |-> t.ms]]

\* The session store after POST /api/session for `token` at time t.
ValidateStore(store, token, t) ==
    IF token \in {NoToken, BadBody} \/ token \notin DOMAIN store THEN store
    ELSE IF Later(t, store[token].expiresAt) THEN deleteSession(store, token)
    ELSE store

\* The response of POST /api/session for `token` at time t.
ValidateResponse(store, token, t) ==
    IF token = BadBody
    THEN Response(500, "Failed to validate session", token, NoData)
    ELSE IF token = NoToken
    THEN Response(400, "Session token required", token, NoData)
    ELSE IF getSession(store, token) = NoData
    THEN Response(401, "Invalid session token", token, NoData)
    ELSE IF Later(t, getSession(store, token).expiresAt)
    THEN Response(401, "Session expired", token, NoData)
    ELSE Response(200, "success", token, SessionView(getSession(store, token)))

\* A faulty variant: a revocation clears the whole store.
RevokeStore_All(store, token) ==
    IF token \notin {0, 0 - 1} THEN [k \in {} |-> store[k]] ELSE store

\* The session store after DELETE /api/session for `token`.
RevokeStore(store, token) ==
    IF token \notin {NoToken, BadBody} THEN deleteSession(store, token) ELSE store

\* The response of DELETE /api/session for `token`.
RevokeResponse(token) ==
    IF token = BadBody
    THEN Response(500, "Failed to delete session", token, NoData)
    ELSE Response(200, "success", token, NoData)

NoOp == [op |-> "none", resp |-> NoResponse]
EmptyHist == [issued |-> EmptyStore, issuedAt |-> EmptyStore, revoked |-> {}]

----------------------------------------------------------------------------
(* Initial state *)

Init ==
    /\ now = 0
    /\ ticks = 0
    /\ activeExecutions = [rt \in Routes |-> EmptyMap]
    /\ timers = {}
    /\ req = [r \in Requests |-> NewReq]
    /\ days = 0
    /\ auth = [a \in Attempts |-> NewAttempt]
    /\ sessionStore = EmptyStore
    /\ hist = EmptyHist
    /\ answer = NoOp

----------------------------------------------------------------------------
(* The POST handler *)

\* Validation, guard and task start: lines 259-475 of the isolated route
\* (218-374 of the plain one), which run without an await.
\* History of a response: the requests that were waiting on their file and
\* the requests whose command was executing at that moment.
Noted(r, q) ==
    [q EXCEPT !.peers = {p \in Requests \ {r} : req[p].pc = "reading"},
              !.running = {p \in Requests \ {r} : req[p].chan = "open"}]

\* The isolated route computes its timestamp and paths after validation and
\* before the guard, from the clock of that moment: the request keeps the
\* day next to the milliseconds `at`.
Planned(q, in, rn) == [q EXCEPT !.day = days]

\* The plan of a request of the isolated route past validation.
PlanOf(q) ==
    IF q.inp.route = "isolated" /\ q.resp \in {200, 429}
    THEN Plan(q.inp, q.runName, Time(q.day, q.at))
    ELSE NoPlan

\* A faulty variant: the guard is consulted before the parameters are
\* checked.
Decide_GuardFirst(r, in, rn) ==
    LET key == UserKey(in, rn)
        map == activeExecutions[in.route]
        seen == IF key \in DOMAIN map THEN map[key] ELSE Never
        g == GuardStep(map, key, now, TTL(in.route))
    IN  /\ activeExecutions' = [activeExecutions EXCEPT ![in.route] = g.map]
        /\ timers' = IF g.timer
                     THEN timers \cup {EvictionTimer(in.route, key, now, r)}
                     ELSE timers
        /\ req' = [req EXCEPT ![r] =
                     IF ~g.accepted THEN Respond429(@, in, rn, key, now, seen)
                     ELSE IF MissingParams(in.conn) THEN Respond400(@, in, rn)
                     ELSE StartTask(@, in, rn, key, now, seen)]

Decide(r, in, rn) ==
    LET key == UserKey(in, rn)
        map == activeExecutions[in.route]
        seen == IF key \in DOMAIN map THEN map[key] ELSE Never
        g == GuardStep(map, key, now, TTL(in.route))
    IN  IF MissingParams(in.conn)
        THEN /\ req' = [req EXCEPT ![r] = Noted(r, Respond400(@, in, rn))]
             /\ UNCHANGED <<activeExecutions, timers>>
        ELSE /\ activeExecutions' = [activeExecutions EXCEPT ![in.route] = g.map]
             /\ timers' = IF g.timer
                          THEN timers \cup {EvictionTimer(in.route, key, now, r)}
                          ELSE timers
             /\ req' = [req EXCEPT ![r] = Noted(r, Planned(
                          IF g.accepted THEN StartTask(@, in, rn, key, now, seen)
                          ELSE Respond429(@, in, rn, key, now, seen), in, rn))]

\* A request is in POST at `await request.formData()` until its form `in`
\* is parsed (requests are numbered in the order their forms resolve). The
\* isolated route with a file then waits on `await fileEntry.text()`; every
\* other request runs on to the response.
FormParsed(r, in) ==
    /\ req[r].pc = "parsing"
    /\ \A p \in Requests : p < r => req[p].pc # "parsing"
    /\ IF in.route = "isolated" /\ in.file.present
       THEN /\ req' = [req EXCEPT ![r] =
                        [@ EXCEPT !.pc = "reading", !.inp = in, !.began = now]]
            /\ UNCHANGED <<activeExecutions, timers>>
       ELSE Decide(r, in, DEFAULT_RUN)
    /\ UNCHANGED <<now, ticks>>
    /\ UNCHANGED AuthVars

\* fileEntry.text() resolves: run-name extraction, then the rest of POST.
FileRead(r) ==
    /\ req[r].pc = "reading"
    /\ Decide(r, req[r].inp, RunNameOf(req[r].inp.file))
    /\ UNCHANGED <<now, ticks>>
    /\ UNCHANGED AuthVars

----------------------------------------------------------------------------
(* Time and the eviction timers *)

NextDue == CHOOSE d \in {t.due : t \in timers} : \A t \in timers : d <= t.due

\* A fine step of the clock; it does not pass a pending timer.
Tick ==
    /\ ticks < MaxTicks
    /\ ticks' = ticks + 1
    /\ now' = IF timers = {} THEN now + TICK_MS ELSE Min(now + TICK_MS, NextDue)
    /\ now' > now
    /\ UNCHANGED <<activeExecutions, timers, req>>
    /\ UNCHANGED AuthVars

\* The clock runs on to the next pending timer.
JumpToTimer ==
    /\ timers # {}
    /\ NextDue > now
    /\ now' = NextDue
    /\ UNCHANGED <<ticks, activeExecutions, timers, req>>
    /\ UNCHANGED AuthVars

\* The setTimeout callback: activeExecutions.delete(userKey).
TimerFire(t) ==
    /\ t \in timers
    /\ t.due <= now
    /\ activeExecutions' =
           [activeExecutions EXCEPT ![t.route] = MapDelete(@, t.key)]
    /\ timers' = timers \ {t}
    /\ UNCHANGED <<now, ticks, req>>
    /\ UNCHANGED AuthVars

----------------------------------------------------------------------------
(* The ssh2 client's callbacks *)

Quiet == UNCHANGED <<now, ticks, activeExecutions, timers>> /\ UNCHANGED AuthVars

ConnectErrors == {"authentication", "ECONNREFUSED", "timeout"}
SessionErrors == {"ECONNRESET"}

\* The handshake completes within readyTimeout of connect().
Ready(r) ==
    /\ req[r].client = "connecting"
    /\ ~req[r].silent
    /\ now < req[r].at + READY_TIMEOUT
    /\ req' = [req EXCEPT ![r] = OnReady(@)]
    /\ Quiet

\* The exec callback reports an error: the server refuses the channel, or
\* the transport was lost while the request was pending.
ExecFails(r) ==
    /\ req[r].chan = "pending"
    /\ ~req[r].silent
    /\ req' = [req EXCEPT ![r] = OnExecError(@)]
    /\ Quiet

ExecStarts(r) ==
    /\ req[r].chan = "pending"
    /\ ~req[r].silent
    /\ req[r].client = "ready"
    /\ req' = [req EXCEPT ![r] = OnExecStream(@)]
    /\ Quiet

StdoutData(r, data) ==
    /\ req[r].chan = "open"
    /\ ~req[r].silent
    /\ req[r].client = "ready"
    /\ Len(req[r].sent) + Len(data) <= MaxBytes
    /\ req' = [req EXCEPT ![r] = OnData(@, data)]
    /\ Quiet

StderrData(r, data) ==
    /\ req[r].chan = "open"
    /\ ~req[r].silent
    /\ req[r].client = "ready"
    /\ Len(req[r].errSent) + Len(data) <= MaxErrBytes
    /\ req' = [req EXCEPT ![r] = OnErrData(@, data)]
    /\ Quiet

\* The command stream closes: the process ended, the streamer asked for the
\* close, or the transport was lost.
StreamClose(r, code) ==
    /\ req[r].chan = "open"
    /\ ~req[r].silent
    /\ req' = [req EXCEPT ![r] = OnClose(@, code)]
    /\ Quiet

\* The remote shell takes the next command of the pipeline; the command
\* exits with st, and an echo that succeeded delivers its line. The setup
\* script, when it succeeds, may end its output with the sentinel phrase
\* (says).
ShellStep(r, st, says) ==
    /\ req[r].chan = "open"
    /\ ~req[r].silent
    /\ req[r].client = "ready"
    /\ req[r].inp.route = "isolated"
    /\ req[r].shell.pos <= Len(FullCommand)
    /\ LET sh == req[r].shell
           cmd == FullCommand[sh.pos]
           echoes == {"echo Warning", "echo created", "echo copied", "echo pwd",
                      "echo starting"}
           q == [req[r] EXCEPT !.shell = ShellAdvance(FullCommand, sh, st)]
       IN  /\ says => (ShellRuns(FullCommand, sh) /\ cmd = "source" /\ st = 0)
           /\ req' = [req EXCEPT ![r] =
                        IF says THEN OnData(q, SENTINEL)
                        ELSE IF ShellRuns(FullCommand, sh) /\ cmd \in echoes /\ st = 0
                        THEN OnData(q, Str(cmd)) ELSE q]
    /\ Quiet

\* stream.close() of the data handler takes effect before the exit status
\* of the command is reported: 'close' comes without one.
SentinelClose(r) ==
    /\ req[r].closeRequested
    /\ StreamClose(r, NoExitStatus)

\* The shell has gone through the list: the stream closes with the exit
\* status of the list.
ShellExit(r) ==
    /\ req[r].chan = "open"
    /\ ~req[r].silent
    /\ req[r].inp.route = "isolated"
    /\ req[r].shell.pos > Len(FullCommand)
    /\ req' = [req EXCEPT ![r] = OnClose(@, req[r].shell.status)]
    /\ Quiet

\* The transport dies without a word (a pulled cable, a dropped route, a
\* frozen peer): nothing arrives any more and no socket error is raised.
TransportDies(r) ==
    /\ req[r].client \in {"connecting", "ready"}
    /\ ~req[r].silent
    /\ req' = [req EXCEPT ![r].silent = TRUE]
    /\ Quiet

\* A faulty variant: the connection timer is left running after 'ready'.
TransportError_TimerLeft(r, kind) ==
    /\ \/ /\ req[r].client \in {"connecting", "ready"} /\ kind = "timeout"
          /\ now >= req[r].at + READY_TIMEOUT
       \/ /\ req[r].client = "connecting" /\ kind \in ConnectErrors \ {"timeout"}
          /\ ~req[r].silent
       \/ /\ req[r].client \in {"ready", "ended"} /\ kind \in SessionErrors
          /\ ~req[r].silent
    /\ req' = [req EXCEPT ![r] = OnError(@, kind)]
    /\ Quiet

\* The client emits 'error': while connecting (rejected credentials, refused
\* connection, or the handshake timeout once readyTimeout has passed), on a
\* live session, or from the socket while end() shuts the session down; and
\* on a session whose keepalives went unanswered, where keepalives are
\* sent. The handler stays attached for the life of the client.
TransportError(r, kind) ==
    /\ \/ /\ req[r].client = "connecting" /\ kind \in ConnectErrors
          /\ kind = "timeout" => now >= req[r].at + READY_TIMEOUT
          /\ kind # "timeout" => ~req[r].silent
       \/ /\ req[r].client \in {"ready", "ended"} /\ kind \in SessionErrors
          /\ ~req[r].silent
       \/ /\ req[r].client = "ready" /\ kind = "Keepalive timeout"
          /\ req[r].silent
          /\ KeepaliveInterval(req[r].inp.route) > 0
    /\ req' = [req EXCEPT ![r] = OnError(@, kind)]
    /\ Quiet

\* The caller of a streaming response stops reading or disconnects.
Caller(r, what) ==
    /\ req[r].resp = 200
    /\ \/ what = "stopped" /\ req[r].caller = "reading"
       \/ what = "gone" /\ req[r].caller \in {"reading", "stopped"}
    /\ req' = [req EXCEPT ![r] = OnCaller(@, what)]
    /\ Quiet

----------------------------------------------------------------------------
(* Inputs *)

HOST == Str("10.250.0.22")
USER == Str("u")
SECRET == Str("pw")
GoodConn == Conn(HOST, USER, SECRET)

FileA == JsonFile(DATA_JSON, [EmptyJson EXCEPT !.branchName = JStr(Str("A"))])

GuardInputs ==
    { Input("isolated", GoodConn, FileA, <<>>),
      Input("isolated", GoodConn, NoFile, <<>>),
      Input("plain", GoodConn, NoFile, <<>>) }

StreamInputs ==
    { Input("isolated", GoodConn, FileA, <<>>),
      Input("isolated", GoodConn, NoFile, <<>>),
      Input("plain", GoodConn, NoFile, <<>>),
      Input("isolated", NoConn, NoFile, <<>>),
      Input("isolated", Conn(<<>>, USER, SECRET), FileA, <<>>),
      Input("isolated", Conn(HOST, <<>>, SECRET), FileA, <<>>),
      Input("isolated", Conn(HOST, USER, <<>>), FileA, <<>>),
      Input("plain", Conn(HOST, USER, <<>>), NoFile, <<>>) }

Alphabet == {"Deactivating", " ", "conda", "\n"}
ErrAlphabet == {"warn", "\n"}

SeqsUpTo(S, n) == UNION {[1 .. k -> S] : k \in 1 .. n}

StdoutChunks == SeqsUpTo(Alphabet, MaxBytes)
StderrChunks == SeqsUpTo(ErrAlphabet, MaxErrBytes)

----------------------------------------------------------------------------
(* Specifications *)

\* One request with everything its command can write and every callback
\* order of its client.
Next ==
    \/ \E in \in StreamInputs : FormParsed(1, in)
    \/ FileRead(1)
    \/ Ready(1)
    \/ ExecFails(1)
    \/ ExecStarts(1)
    \/ \E d \in StdoutChunks : StdoutData(1, d)
    \/ \E d \in StderrChunks : StderrData(1, d)
    \/ \E c \in ExitCodes : StreamClose(1, c)
    \/ \E k \in ConnectErrors \cup SessionErrors : TransportError(1, k)

Spec == Init /\ [][Next]_vars

\* Concurrent requests against the guard, the clock and the eviction timers.
NextGuard ==
    \/ \E r \in Requests, in \in GuardInputs : FormParsed(r, in)
    \/ \E r \in Requests : FileRead(r)
    \/ Tick
    \/ JumpToTimer
    \/ \E t \in timers : TimerFire(t)

SpecGuard == Init /\ [][NextGuard]_vars

RunInputs ==
    { Input("isolated", GoodConn, NoFile, <<>>),
      Input("plain", GoodConn, NoFile, <<>>) }

\* Requests without a descriptor file and their runs: the guard, the clock
\* and the callbacks of each client, for commands that write nothing.
NextRuns ==
    \/ \E r \in RunRequests, in \in RunInputs : FormParsed(r, in)
    \/ Tick
    \/ JumpToTimer
    \/ \E t \in timers : TimerFire(t)
    \/ \E r \in RunRequests : Ready(r)
    \/ \E r \in RunRequests : ExecStarts(r)
    \/ \E r \in RunRequests : StreamClose(r, 0)
    \/ \E r \in RunRequests : TransportError(r, "ECONNREFUSED")

SpecRuns == Init /\ [][NextRuns]_vars

\* Triggers with and without their connection details, for one identity,
\* against the guard and its timers.
NextMalformed ==
    \/ \E r \in RunRequests, rt \in Routes,
          c \in {GoodConn, NoConn, Conn(<<>>, USER, SECRET),
                 Conn(HOST, <<>>, SECRET), Conn(HOST, USER, <<>>)} :
           FormParsed(r, Input(rt, c, NoFile, <<>>))
    \/ Tick
    \/ JumpToTimer
    \/ \E t \in timers : TimerFire(t)

SpecMalformed == Init /\ [][NextMalformed]_vars

\* Triggers of the isolated route whose identities and run names contain
\* the separator of the key.
NextKeys ==
    \/ \E r \in RunRequests, h \in {<<"a">>, <<"a", "-", "b">>},
          n \in {<<"c">>, <<"b", "-", "c">>, <<"b", " ", "c">>} :
           FormParsed(r, Input("isolated", Conn(HOST, h, SECRET),
                               JsonFile(DATA_JSON, [EmptyJson EXCEPT !.branchName = JStr(n)]),
                               <<>>))
    \/ \E r \in RunRequests : FileRead(r)
    \/ Tick
    \/ JumpToTimer
    \/ \E t \in timers : TimerFire(t)

SpecKeys == Init /\ [][NextKeys]_vars

\* One run and its caller, who may stop reading or disconnect at any point.
NextCaller ==
    \/ \E in \in RunInputs : FormParsed(1, in)
    \/ \E what \in {"stopped", "gone"} : Caller(1, what)
    \/ Ready(1)
    \/ ExecFails(1)
    \/ ExecStarts(1)
    \/ \E d \in {<<"conda">>, SENTINEL} : StdoutData(1, d)
    \/ \E d \in StderrChunks : StderrData(1, d)
    \/ \E c \in ExitCodes : StreamClose(1, c)
    \/ \E k \in ConnectErrors \cup SessionErrors : TransportError(1, k)

SpecCaller == Init /\ [][NextCaller]_vars

\* One run whose transport may die silently at any point, under the
\* scheduling of the timers: time passes, and a timeout of the client that
\* is due is raised.
NextHeartbeat ==
    \/ \E in \in RunInputs : FormParsed(1, in)
    \/ JumpToTimer
    \/ \E t \in timers : TimerFire(t)
    \/ TransportDies(1)
    \/ Ready(1)
    \/ ExecStarts(1)
    \/ \E d \in {<<"conda">>, SENTINEL} : StdoutData(1, d)
    \/ \E c \in ExitCodes : StreamClose(1, c)
    \/ \E k \in {"timeout", "ECONNRESET", "Keepalive timeout"} : TransportError(1, k)

SpecHeartbeat ==
    /\ Init /\ [][NextHeartbeat]_vars
    /\ WF_vars(JumpToTimer)
    /\ WF_vars(TransportError(1, "timeout"))
    /\ WF_vars(TransportError(1, "Keepalive timeout"))

\* Runs that succeed, fail or lose their connection, under the event loop's
\* scheduling: the clock reaches every pending setTimeout, and a callback
\* that is due is run. Requests arrive at the start and when a timer is due.
NextEvict ==
    \/ \E r \in RunRequests, in \in RunInputs : FormParsed(r, in)
    \/ JumpToTimer
    \/ \E t \in timers : TimerFire(t)
    \/ \E r \in RunRequests : Ready(r)
    \/ \E r \in RunRequests : ExecStarts(r)
    \/ \E r \in RunRequests, c \in {0, 1} : StreamClose(r, c)
    \/ \E r \in RunRequests : TransportError(r, "ECONNREFUSED")

SpecEvict ==
    /\ Init /\ [][NextEvict]_vars
    /\ WF_vars(JumpToTimer)
    /\ WF_vars(\E t \in timers : TimerFire(t))

----------------------------------------------------------------------------
(* The authentication route, the session route and their clock *)

Clock == Time(days, now)

AuthInputs ==
    { [ip |-> HOST, hostname |-> USER, password |-> SECRET],
      [ip |-> HOST, hostname |-> Str("v"), password |-> SECRET] }

\* Request bodies that differ in the secret only.
SecretInputs ==
    { [ip |-> HOST, hostname |-> USER, password |-> SECRET],
      [ip |-> HOST, hostname |-> USER, password |-> Str("pw2")] }

\* POST /api/auth with body `in` (attempts are numbered in the order they
\* arrive).
AuthPost(a, in) ==
    /\ auth[a].pc = "idle"
    /\ \A p \in Attempts : p < a => auth[p].pc # "idle"
    /\ auth' = [auth EXCEPT ![a] = StartAttempt(@, in, now)]
    /\ UNCHANGED <<now, days, sessionStore, hist, answer>>
    /\ UNCHANGED RunVars

\* The handshake completes within the client's readyTimeout: 'ready'. It
\* may complete after the route's own timer has called end() on a client
\* that was still connecting.
AuthReady(a) ==
    /\ \/ auth[a].conn = "connecting"
       \/ auth[a].conn = "ended" /\ auth[a].ran = <<"timeout">>
    /\ now < auth[a].started + AUTH_READY_TIMEOUT
    /\ LET expiresAt == ExpiryFrom(Clock)
           data == SessionRecord(auth[a].inp, expiresAt)
       IN  /\ auth' = [auth EXCEPT ![a] = OnAuthReady(@, TokenOf(a), expiresAt)]
           /\ sessionStore' = setSession(sessionStore, TokenOf(a), data)
           /\ hist' = [hist EXCEPT
                        !.issued = [k \in DOMAIN @ \cup {TokenOf(a)} |->
                                      IF k = TokenOf(a) THEN data ELSE @[k]],
                        !.issuedAt = [k \in DOMAIN @ \cup {TokenOf(a)} |->
                                        IF k = TokenOf(a) THEN Clock ELSE @[k]]]
    /\ UNCHANGED <<now, days, answer>>
    /\ UNCHANGED RunVars

\* The client emits 'error': during the handshake (the timeout kind once
\* readyTimeout has passed), or from the socket while end() shuts the
\* session down after 'ready'.
AuthError(a, kind) ==
    /\ \/ /\ auth[a].conn = "connecting"
          /\ kind = "timeout" <=> now >= auth[a].started + AUTH_READY_TIMEOUT
       \/ /\ auth[a].conn = "ended" /\ auth[a].ran = <<"ready">>
          /\ kind = "reset"
    /\ auth' = [auth EXCEPT ![a] = OnAuthError(@, kind)]
    /\ UNCHANGED <<now, days, sessionStore, hist, answer>>
    /\ UNCHANGED RunVars

\* During authentication the server sends a keyboard-interactive request
\* of n prompts (it may send several in one authentication): the handler
\* answers it.
AuthPrompt(a, n) ==
    /\ auth[a].conn = "connecting"
    /\ now < auth[a].started + AUTH_READY_TIMEOUT
    /\ Len(auth[a].answers) < MaxRounds
    /\ auth' = [auth EXCEPT ![a].answers =
                   Append(@, [prompts |-> n,
                              finish |-> KeyboardAnswer(auth[a].inp.password, n)])]
    /\ UNCHANGED <<now, days, sessionStore, hist, answer>>
    /\ UNCHANGED RunVars

\* The server closes the connection during the handshake and the client
\* reports no 'error': no handler of the attempt runs.
AuthQuietClose(a) ==
    /\ auth[a].conn = "connecting"
    /\ now < auth[a].started + AUTH_READY_TIMEOUT
    /\ auth' = [auth EXCEPT ![a].conn = "closed"]
    /\ UNCHANGED <<now, days, sessionStore, hist, answer>>
    /\ UNCHANGED RunVars

\* The 10 s timer of an attempt fires.
AuthTimerFire(a) ==
    /\ auth[a].timer = "pending"
    /\ now >= auth[a].started + AUTH_TIMEOUT
    /\ auth' = [auth EXCEPT ![a] = OnAuthTimeout(@)]
    /\ UNCHANGED <<now, days, sessionStore, hist, answer>>
    /\ UNCHANGED RunVars

\* The times at which a timer of an attempt is due: the client's
\* readyTimeout while it connects, the route's own timer while armed.
AuthDue ==
    {auth[a].started + AUTH_READY_TIMEOUT : a \in {x \in Attempts : auth[x].conn = "connecting"}}
    \cup {auth[a].started + AUTH_TIMEOUT : a \in {x \in Attempts : auth[x].timer = "pending"}}

\* The clock runs on to the next timer of an attempt.
AuthWait ==
    /\ AuthDue # {}
    /\ \A d \in AuthDue : d > now
    /\ now' = CHOOSE d \in AuthDue : \A e \in AuthDue : d <= e
    /\ UNCHANGED <<days, auth, sessionStore, hist, answer>>
    /\ UNCHANGED RunVars

\* A fine step of the clock; it does not pass a timer of an attempt.
AuthTick ==
    /\ ticks < MaxTicks
    /\ ticks' = ticks + 1
    /\ \A d \in AuthDue : d > now
    /\ now' = IF AuthDue = {} THEN now + TICK_MS
              ELSE Min(now + TICK_MS, CHOOSE d \in AuthDue : \A e \in AuthDue : d <= e)
    /\ UNCHANGED <<activeExecutions, timers, req>>
    /\ UNCHANGED AuthVars

\* A session lifetime passes while no attempt is under way.
MonthPasses ==
    /\ AuthDue = {}
    /\ days < MaxMonths * SESSION_DAYS
    /\ days' = days + SESSION_DAYS
    /\ UNCHANGED <<now, auth, sessionStore, hist, answer>>
    /\ UNCHANGED RunVars

\* POST /api/session
Validate(token) ==
    /\ answer' = [op |-> "validate",
                  resp |-> ValidateResponse(sessionStore, token, Clock)]
    /\ sessionStore' = ValidateStore(sessionStore, token, Clock)
    /\ UNCHANGED <<now, days, auth, hist>>
    /\ UNCHANGED RunVars

\* DELETE /api/session
Revoke(token) ==
    /\ answer' = [op |-> "revoke", resp |-> RevokeResponse(token)]
    /\ sessionStore' = RevokeStore(sessionStore, token)
    /\ hist' = [hist EXCEPT !.revoked = IF token \notin {NoToken, BadBody}
                                        THEN @ \cup {token} ELSE @]
    /\ UNCHANGED <<now, days, auth>>
    /\ UNCHANGED RunVars

\* Authentication attempts with every order of their client's events and
\* their timers.
NextAuth ==
    \/ \E a \in Attempts, in \in AuthInputs : AuthPost(a, in)
    \/ \E a \in Attempts : AuthReady(a)
    \/ \E a \in Attempts, k \in AuthErrorKinds : AuthError(a, k)
    \/ \E a \in Attempts : AuthQuietClose(a)
    \/ \E a \in Attempts : AuthTimerFire(a)
    \/ AuthWait
    \/ AuthTick

SpecAuth == Init /\ [][NextAuth]_vars

\* Sessions issued by successful attempts, then validations and revocations
\* in every order while the clock runs through session lifetimes.
NextSession ==
    \/ \E a \in Attempts, in \in AuthInputs : AuthPost(a, in)
    \/ \E a \in Attempts : AuthReady(a)
    \/ MonthPasses
    \/ \E t \in Bodies : Validate(t)
    \/ \E t \in Bodies : Revoke(t)

SpecSession == Init /\ [][NextSession]_vars

\* Attempts for one host and identity with different secrets, accepted or
\* rejected by the server, then validations and revocations.
NextSecrets ==
    \/ \E a \in Attempts, in \in SecretInputs : AuthPost(a, in)
    \/ \E a \in Attempts : AuthReady(a)
    \/ \E a \in Attempts : AuthError(a, "authentication")
    \/ \E t \in Bodies : Validate(t)
    \/ \E t \in Bodies : Revoke(t)

SpecSecrets == Init /\ [][NextSecrets]_vars

\* Attempts with and without a secret against a server that asks for
\* keyboard-interactive input before it accepts or rejects.
NextPrompt ==
    \/ \E a \in Attempts, pw \in {SECRET, <<>>} :
           AuthPost(a, [ip |-> HOST, hostname |-> USER, password |-> pw])
    \/ \E a \in Attempts, n \in 0 .. MaxPrompts : AuthPrompt(a, n)
    \/ \E a \in Attempts : AuthReady(a)
    \/ \E a \in Attempts : AuthError(a, "authentication")

SpecPrompt == Init /\ [][NextPrompt]_vars

----------------------------------------------------------------------------
(* The isolation planner over descriptors and wall-clock times *)

FOO_BAR == <<"F", "o", "o", " ", "B", "a", "r", "!">>

\* Descriptors: the run name as a string at each location the handler looks
\* at (short names, and names around the length limit), values that are not
\* strings (an array ["../../tmp"], the number 1.5, a long array), a file
\* that is not JSON, and no file.
PlanFiles ==
    LET LongName(k) == [i \in 1 .. k |-> IF i % 3 = 0 THEN "!" ELSE "a"]
        DOTS_TMP == <<".", ".", "/", ".", ".", "/", "t", "m", "p">>
        RawNames == {FOO_BAR, <<"a", "!", "!">>, <<"r", "u", "n", "-", "1">>}
                    \cup {LongName(k) : k \in MAX_NAME - 1 .. MAX_NAME + MaxOver}
    IN
    {NoFile, GarbageFile(DATA_JSON)}
    \cup {JsonFile(DATA_JSON, [EmptyJson EXCEPT !.branchName = JStr(x)]) : x \in RawNames}
    \cup {JsonFile(DATA_JSON, [EmptyJson EXCEPT !.gitParamsBranchName = JStr(<<"a", "/", "b">>)]),
          JsonFile(DATA_JSON, [EmptyJson EXCEPT !.gitParmsBranchName = JStr(<<"a", ".", "b">>)]),
          JsonFile(DATA_JSON, [EmptyJson EXCEPT !.gitParams = "object",
                                                !.gitParamsAlt = JStr(<<"a", " ", "b">>)]),
          JsonFile(DATA_JSON, [EmptyJson EXCEPT !.run_name = JStr(<<"a", "\n", "b">>)]),
          JsonFile(DATA_JSON, [EmptyJson EXCEPT !.name = JStr(<<"a", "!", "b">>)]),
          JsonFile(<<"m", " ", "y", ".", "json">>, EmptyJson),
          JsonFile(DATA_JSON, [EmptyJson EXCEPT !.branchName = JOther(DOTS_TMP)]),
          JsonFile(DATA_JSON, [EmptyJson EXCEPT !.run_name = JOther(<<"1", ".", "5">>)]),
          JsonFile(DATA_JSON, [EmptyJson EXCEPT
                                 !.name = JOther(LongName(MAX_NAME + MaxOver))])}

PlanInputs ==
    {Input("isolated", GoodConn, f, <<>>) : f \in PlanFiles}
    \cup {Input("isolated", Conn(HOST, Str("v"), SECRET), FileA, <<>>)}

\* A week passes on the wall clock before the first trigger arrives.
WeekPasses ==
    /\ \A r \in Requests : req[r].pc = "parsing"
    /\ days < 7 * MaxWeeks
    /\ days' = days + 7
    /\ UNCHANGED <<now, auth, sessionStore, hist, answer>>
    /\ UNCHANGED RunVars

\* A coarse step of the wall clock within the day, before the first trigger
\* arrives.
PlanClockStep ==
    /\ \A r \in Requests : req[r].pc = "parsing"
    /\ now + PLAN_STEP_MS < DAY_MS
    /\ now' = now + PLAN_STEP_MS
    /\ UNCHANGED <<ticks, activeExecutions, timers, req>>
    /\ UNCHANGED AuthVars

\* One trigger of the isolated route for every descriptor, planned at
\* wall-clock times over several months and all hours of the day.
NextPlan ==
    \/ \E in \in PlanInputs : FormParsed(1, in)
    \/ FileRead(1)
    \/ WeekPasses
    \/ PlanClockStep

SpecPlan == Init /\ [][NextPlan]_vars

\* One run of the isolated route with every combination of exit statuses
\* of the commands of its pipeline, the setup script ending its output with
\* or without the sentinel phrase.
NextPipeline ==
    \/ FormParsed(1, Input("isolated", GoodConn, NoFile, <<>>))
    \/ Ready(1)
    \/ ExecStarts(1)
    \/ \E st \in {0, 1, 2}, says \in BOOLEAN : ShellStep(1, st, says)
    \/ ShellExit(1)
    \/ SentinelClose(1)

SpecPipeline == Init /\ [][NextPipeline]_vars

----------------------------------------------------------------------------
(* Properties *)

Accepted(q) == q.resp = 200
Rejected(q) == q.resp = 429
SameRun(a, b) == a.inp.route = b.inp.route /\ a.key = b.key
TerminalIdx(q) == {i \in 1 .. Len(q.out) : q.out[i].type \in Terminals}
\* An accepted run is in flight until its terminal event is emitted.
InFlight(q) == Accepted(q) /\ TerminalIdx(q) = {}
Apart(a, b) == IF a.at >= b.at THEN a.at - b.at ELSE b.at - a.at

\* C1: once a trigger for a key has been accepted by the isolated route, no
\* further trigger for that key is accepted less than 2000 ms later: any two
\* acceptances for one key are at least the TTL apart.
C1_DedupWindow ==
    \A a, b \in Requests :
        (/\ a # b
         /\ Accepted(req[a]) /\ Accepted(req[b])
         /\ req[a].inp.route = "isolated"
         /\ SameRun(req[a], req[b]))
        => Apart(req[a], req[b]) >= TTL_ISOLATED

\* C2: two handlers that run concurrently with the same key (one was
\* suspended on its file while the other passed the guard, and both went
\* from their form to the guard within one reading of the clock) are not
\* both accepted.
C2_ConcurrentNotBothAccepted ==
    \A a, b \in Requests :
        (/\ a # b
         /\ a \in req[b].peers
         /\ SameRun(req[a], req[b])
         /\ req[a].pc = "responded" /\ req[b].pc = "responded"
         /\ req[a].began = req[a].at /\ req[b].began = req[b].at
         /\ req[a].at = req[b].at)
        => ~(Accepted(req[a]) /\ Accepted(req[b]))

\* C3 (as stated): for every key at most one accepted run is in flight: no
\* trigger is accepted while a run for its key is still executing.
C3_OneInFlight ==
    \A a, b \in Requests :
        (Accepted(req[b]) /\ a \in req[b].running) => ~SameRun(req[a], req[b])

\* C3 (amended): a trigger is accepted while a run for its key is still
\* executing only if the guard holds no entry for the key, or an entry
\* written at or after that run's acceptance and at least the TTL old.
C3_SecondAfterWindow ==
    \A a, b \in Requests :
        (Accepted(req[b]) /\ a \in req[b].running /\ SameRun(req[a], req[b]))
        => \/ req[b].seen = Never
           \/ /\ req[b].seen >= req[a].at
              /\ req[b].at - req[b].seen >= TTL(req[b].inp.route)

C3_Witness ==
    \E a, b \in Requests :
        /\ Accepted(req[b]) /\ a \in req[b].running /\ SameRun(req[a], req[b])
        /\ InFlight(req[a]) /\ InFlight(req[b])
        /\ req[b].seen = req[a].at
        /\ req[b].at - req[a].at = TTL_ISOLATED

\* C4: a trigger that passes validation is rejected if and only if the map
\* holds an entry for its key whose age is strictly below the route's TTL;
\* otherwise it is accepted and the entry is written with the current time.
C4_DecisionRule ==
    [][\A r \in Requests :
          (req[r].pc # "responded" /\ req'[r].pc = "responded" /\ req'[r].resp # 400)
          => LET rt == req'[r].inp.route
                 key == req'[r].key
                 map == activeExecutions[rt]
                 fresh == key \in DOMAIN map /\ now - map[key] < TTL(rt)
             IN  /\ Rejected(req'[r]) <=> fresh
                 /\ Accepted(req'[r]) <=> ~fresh
                 /\ ~fresh => /\ key \in DOMAIN activeExecutions'[rt]
                              /\ activeExecutions'[rt][key] = now]_vars

C4_Witness ==
    /\ \E r \in Requests :
          /\ Accepted(req[r]) /\ req[r].inp.route = "isolated"
          /\ req[r].seen # Never /\ req[r].at - req[r].seen = TTL_ISOLATED
    /\ \E r \in Requests :
          /\ Rejected(req[r]) /\ req[r].at - req[r].seen < TTL(req[r].inp.route)

\* C5: a duplicate rejection leaves the guard map and the pending eviction
\* timers as they were, and the rejected request never has an SSH client, a
\* connect call or a writer.
C5_RejectionNoEffect ==
    [][\A r \in Requests :
          Rejected(req'[r])
          => /\ req'[r].client = "none" /\ req'[r].connectCalls = 0
             /\ req'[r].writer = "none"
             /\ ~Rejected(req[r]) => UNCHANGED <<activeExecutions, timers>>]_vars

C5_Witness ==
    \E r \in Requests :
        /\ Rejected(req[r])
        /\ req[r].key \in DOMAIN activeExecutions[req[r].inp.route]
        /\ activeExecutions[req[r].inp.route][req[r].key] = req[r].seen
        /\ req[r].at > req[r].seen

\* C6 (as stated): a trigger with host, identity, secret or descriptor
\* missing is answered 400 and never gets an SSH client.
C6_FailFastWithDescriptor ==
    \A r \in Requests :
        (/\ req[r].pc = "responded"
         /\ req[r].inp.route = "isolated"
         /\ \/ <<>> \in {req[r].inp.conn.ip, req[r].inp.conn.hostname,
                         req[r].inp.conn.password}
            \/ ~req[r].inp.file.present)
        => /\ req[r].resp = 400
           /\ req[r].client = "none" /\ req[r].connectCalls = 0

\* C6 (amended): a trigger with host, identity or secret missing is answered
\* 400 and never gets an SSH client, a connect call or a writer; a missing
\* descriptor alone is not rejected.
C6_FailFast ==
    \A r \in Requests :
        (/\ req[r].pc = "responded"
         /\ <<>> \in {req[r].inp.conn.ip, req[r].inp.conn.hostname,
                      req[r].inp.conn.password})
        => /\ req[r].resp = 400
           /\ req[r].client = "none" /\ req[r].connectCalls = 0
           /\ req[r].writer = "none" /\ req[r].out = <<>>

C6_Witness ==
    \E r \in Requests :
        /\ req[r].resp = 400
        /\ req[r].inp.file.present
        /\ req[r].inp.conn.ip # <<>> /\ req[r].inp.conn.hostname # <<>>

\* C7: the events written to the stream of an accepted request hold at most
\* one terminal event, nothing follows it, and there is exactly one once the
\* request's task has resolved.
C7_OneTerminalLast ==
    \A r \in Requests :
        Accepted(req[r])
        => /\ Cardinality(TerminalIdx(req[r])) <= 1
           /\ \A i \in TerminalIdx(req[r]) : i = Len(req[r].out)
           /\ req[r].resolved => Cardinality(TerminalIdx(req[r])) = 1

\* C8: once the task of an accepted request has resolved, its terminal event
\* is in the stream and the stream is closed.
C8_ResolvedIsClosed ==
    \A r \in Requests :
        (Accepted(req[r]) /\ req[r].resolved)
        => TerminalIdx(req[r]) # {} /\ req[r].writer = "closed"

\* C9 (as stated): once the command stream has closed, the last event of
\* the stream is success if and only if the exit status is zero, and
\* otherwise error with that exit status in its message.
C9_TerminalKindAlways ==
    \A r \in Requests :
        req[r].code # NotClosed
        => LET last == req[r].out[Len(req[r].out)]
           IN  /\ last.type = "success" <=> req[r].code = 0
               /\ last.type = "error" <=> req[r].code # 0
               /\ req[r].code # 0 => last.arg = <<CodeStr(req[r].code)>>

\* C9 (amended): when the command stream closes while the caller's stream is
\* still open, the event then written is the last one, success if and only
\* if the exit status is zero and otherwise error with that exit status in
\* its message; when a connection error has closed the caller's stream
\* before, the close adds no event and the stream still ends with that
\* connection error.
C9_TerminalKind ==
    [][\A r \in Requests :
          (req[r].code = NotClosed /\ req'[r].code # NotClosed)
          => LET code == req'[r].code
                 last == req'[r].out[Len(req'[r].out)]
             IN  IF req[r].writer = "open"
                 THEN /\ Len(req'[r].out) = Len(req[r].out) + 1
                      /\ last.type = "success" <=> code = 0
                      /\ last.type = "error" <=> code # 0
                      /\ code # 0 => last.arg = <<CodeStr(code)>>
                 ELSE /\ req'[r].out = req[r].out
                      /\ last.type = "error"
                      /\ last.text = "SSH connection error"]_vars

C9_Witness ==
    \E r \in Requests :
        /\ req[r].code = 2 /\ ~req[r].fault
        /\ req[r].inp.route = "plain"
        /\ req[r].out[Len(req[r].out)].arg = <<"2">>

\* C10: whenever the bytes delivered on the normal channel contain the
\* sentinel phrase, a close of the command stream has been requested.
C10_SentinelCloses ==
    \A r \in Requests :
        Includes(req[r].sent, SENTINEL) => req[r].closeRequested

\* C11: when the streamer has asked for the close after the sentinel and the
\* command stream then closes, with exit status zero or before the process
\* has reported an exit status, the terminal event of the run is success.
C11_SentinelSuccess ==
    \A r \in Requests :
        (/\ req[r].closeRequested
         /\ req[r].code \in {0, NoExitStatus}
         /\ ~req[r].fault)
        => req[r].out[Len(req[r].out)].type = "success"

IsOutput(ev) == ev.type \in {"stdout", "stderr"}

\* The piece of data a step delivered on a channel: what was appended to the
\* bytes received so far.
Delivered(before, after) == SubSeq(after, Len(before) + 1, Len(after))

\* C12: every piece of output that arrives on the normal (resp. error)
\* channel and is not blank is appended to the caller's stream as a stdout
\* (resp. stderr) event, carrying the trimmed piece, in the very step in
\* which it arrives; the stream holds no terminal event at that moment, and
\* a blank piece adds nothing.
C12_DeliveredOnArrival ==
    [][\A r \in Requests :
          /\ req'[r].sent # req[r].sent
             => LET piece == Trim(Delivered(req[r].sent, req'[r].sent))
                IN  /\ TerminalIdx(req[r]) = {}
                    /\ req'[r].out = IF piece = <<>> THEN req[r].out
                                     ELSE Append(req[r].out, Ev("stdout", "", piece))
          /\ req'[r].errSent # req[r].errSent
             => LET piece == Trim(Delivered(req[r].errSent, req'[r].errSent))
                IN  /\ TerminalIdx(req[r]) = {}
                    /\ req'[r].out = IF piece = <<>> THEN req[r].out
                                     ELSE Append(req[r].out, Ev("stderr", "", piece))]_vars

C12_Witness ==
    \E r \in Requests :
        /\ req[r].code = 1
        /\ Len(req[r].out) >= 4
        /\ LET n == Len(req[r].out)
           IN  /\ req[r].out[n].type = "error"
               /\ req[r].out[n - 1].type = "stdout"
               /\ req[r].out[n - 2].type = "stderr"
               /\ req[r].out[n - 3].type = "stdout"

\* C13: every stdout/stderr event carries exactly one line: no event holds
\* a line terminator between two pieces of text.
C13_OneLinePerEvent ==
    \A r \in Requests :
        \A i \in 1 .. Len(req[r].out) :
            IsOutput(req[r].out[i])
            => \A k \in 1 .. Len(req[r].out[i].arg) : req[r].out[i].arg[k] # "\n"

\* C14: when authentication is rejected during connect, the caller's stream
\* is exactly one error event that carries the authentication failure; no
\* command was started and the stream is closed.
C14_AuthFailureOneError ==
    \A r \in Requests :
        (req[r].faultKind = "authentication")
        => /\ req[r].out = <<Ev("error", "SSH connection error", <<"authentication">>)>>
           /\ req[r].chan = "none"
           /\ req[r].writer = "closed" /\ req[r].resolved

C14_Witness ==
    \E r \in Requests :
        /\ req[r].faultKind = "authentication"
        /\ req[r].inp.route = "isolated" /\ req[r].inp.file.present
        /\ Len(req[r].out) = 1

\* C15: once the task of a request that created an SSH client has resolved,
\* sshClient.end() has been called exactly once.
C15_EndedOnce ==
    \A r \in Requests :
        (req[r].connectCalls > 0 /\ req[r].resolved) => req[r].endCalls = 1

\* C16: every connect attempt has exactly one outcome that is acted upon:
\* the response is the one of the first handler that ran; 'ready' runs only
\* as the first handler and at most once; the 10 s timer fires only as the
\* first handler; the only handler that can run after another is 'error'
\* from the closing socket after 'ready', and it leaves the response as it
\* was.
C16_OneOutcome ==
    \A a \in Attempts :
        LET ran == auth[a].ran
            resp == auth[a].resp
        IN  /\ (resp = NoResponse) <=> (ran = <<>>)
            /\ ran # <<>> =>
                 /\ ran[1] = "ready" => resp.status = 200 /\ resp.token = TokenOf(a)
                 /\ ran[1] = "error" => resp.status \in {401, 500} /\ resp.token = NoToken
                 /\ ran[1] = "timeout" => resp.status = 500 /\ resp.token = NoToken
                 /\ \A i \in 2 .. Len(ran) : ran[i] = "error" /\ ran[1] = "ready"
                 /\ ran[1] # "ready" => auth[a].timer # "pending"

C16_Witness ==
    /\ \E a \in Attempts : auth[a].ran = <<"ready", "error">>
    /\ \E a \in Attempts : auth[a].ran = <<"timeout">>

\* C17: a token enters the session store only in the step in which an
\* attempt is answered with success and that token; a step that answers an
\* attempt with success leaves the record of its host and identity under
\* the returned token; a step that answers an attempt with an error leaves
\* the store unchanged.
C17_IssuedOnlyOnSuccess ==
    [][/\ \A t \in DOMAIN sessionStore' \ DOMAIN sessionStore :
             \E a \in Attempts :
                 /\ auth[a].resp = NoResponse
                 /\ auth'[a].resp.status = 200 /\ auth'[a].resp.token = t
       /\ \A a \in Attempts :
             (auth[a].resp = NoResponse /\ auth'[a].resp # NoResponse)
             => IF auth'[a].resp.status = 200
                THEN /\ auth'[a].ran = <<"ready">>
                     /\ auth'[a].resp.token \in DOMAIN sessionStore'
                     /\ sessionStore'[auth'[a].resp.token] =
                            [ip |-> auth[a].inp.ip, hostname |-> auth[a].inp.hostname,
                             expiresAt |-> auth'[a].resp.data.expiresAt]
                ELSE sessionStore' = sessionStore
       /\ \A a \in Attempts :
             ("ready" \in {auth'[a].ran[i] : i \in 1 .. Len(auth'[a].ran)})
             => auth'[a].resp.status = 200]_vars

C17_Witness ==
    \E a, b \in Attempts :
        /\ auth[a].resp.status = 200 /\ auth[a].resp.token \in DOMAIN sessionStore
        /\ auth[b].resp.status = 401 /\ DOMAIN sessionStore = {auth[a].resp.token}
        /\ b < a

\* C18: a validation of an issued token, before any revoke of it and not
\* after its expiry, answers 200 with exactly the host, identity and
\* expiresAt of its issuance, whatever was done with other tokens.
C18_RoundTrip ==
    [][(answer' # answer /\ answer'.op = "validate")
       => LET tok == answer'.resp.token
          IN  (/\ tok \in DOMAIN hist.issued
               /\ tok \notin hist.revoked
               /\ ~Later(Clock, hist.issued[tok].expiresAt))
              => /\ answer'.resp.status = 200
                 /\ answer'.resp.data = hist.issued[tok]]_vars

C18_Witness ==
    /\ answer.op = "validate" /\ answer.resp.status = 200
    /\ answer.resp.token = 1
    /\ answer.resp.data.hostname = USER
    /\ Clock = answer.resp.data.expiresAt
    /\ 2 \in DOMAIN hist.issued /\ 2 \in hist.revoked

\* C19: a validation answers with session data exactly when the store holds
\* a record for the token whose expiry has not passed; a token without a
\* record and an expired token are answered 401, a request without a token
\* 400, an unreadable request 500, none of them with data; validating an expired token removes its
\* record and only it; every other validation leaves the store unchanged.
C19_FailsClosed ==
    [][(answer' # answer /\ answer'.op = "validate")
       => LET tok == answer'.resp.token
              present == tok \notin {NoToken, BadBody} /\ tok \in DOMAIN sessionStore
              expired == present /\ Later(Clock, sessionStore[tok].expiresAt)
          IN  /\ answer'.resp.status = 200 <=> (present /\ ~expired)
              /\ answer'.resp.status # 200 => answer'.resp.data = NoData
              /\ (tok \notin {NoToken, BadBody} /\ (~present \/ expired))
                     => answer'.resp.status = 401
              /\ tok = NoToken => answer'.resp.status = 400
              /\ tok = BadBody => answer'.resp.status = 500
              /\ expired => /\ DOMAIN sessionStore' = DOMAIN sessionStore \ {tok}
                            /\ \A k \in DOMAIN sessionStore' :
                                   sessionStore'[k] = sessionStore[k]
              /\ ~expired => sessionStore' = sessionStore]_vars

C19_Witness ==
    /\ answer.op = "validate" /\ answer.resp.status = 401
    /\ answer.resp.body = "Session expired"
    /\ answer.resp.token \in DOMAIN hist.issued
    /\ answer.resp.token \notin hist.revoked
    /\ answer.resp.token \notin DOMAIN sessionStore
    /\ sessionStore # EmptyStore

\* C20: every record in the store is the record written at issuance, and
\* its expiresAt is the issuance time plus 30 days.
C20_FixedExpiry ==
    \A tok \in DOMAIN sessionStore :
        /\ sessionStore[tok] = hist.issued[tok]
        /\ sessionStore[tok].expiresAt.day = hist.issuedAt[tok].day + SESSION_DAYS
        /\ sessionStore[tok].expiresAt.ms = hist.issuedAt[tok].ms

C20_Witness ==
    /\ answer.op = "validate" /\ answer.resp.status = 200
    /\ answer.resp.token \in DOMAIN sessionStore
    /\ days > hist.issuedAt[answer.resp.token].day
    /\ sessionStore[answer.resp.token].expiresAt = answer.resp.data.expiresAt

\* C21 as stated: every revocation request is acknowledged with success,
\* whatever its body holds.
C21_AlwaysAcknowledged ==
    [][\A t \in Bodies : Revoke(t) => answer'.resp.status = 200]_vars

\* C21: a revocation whose body is a JSON object is acknowledged with
\* success whether its token has a record, was revoked before, never had
\* one or is absent; it removes the record of the named token and no other;
\* revoking again changes nothing; a validation right after it finds no
\* record; and no record returns to the store for a token issued before. A
\* request whose body cannot be read is answered 500 and changes nothing.
C21_RevokeIdempotent ==
    [][/\ \A t \in TokenArgs : Revoke(t) =>
             /\ answer'.resp.status = 200 /\ answer'.resp.body = "success"
             /\ DOMAIN sessionStore' = DOMAIN sessionStore \ {t}
             /\ \A k \in DOMAIN sessionStore' : sessionStore'[k] = sessionStore[k]
             /\ RevokeStore(sessionStore', t) = sessionStore'
             /\ ValidateResponse(sessionStore', t, Clock).status \in {400, 401}
       /\ Revoke(BadBody) => answer'.resp.status = 500 /\ sessionStore' = sessionStore
       /\ \A k \in DOMAIN sessionStore' \ DOMAIN sessionStore :
             k \notin DOMAIN hist.issued]_vars

C21_Witness ==
    /\ answer.op = "revoke" /\ answer.resp.status = 200
    /\ answer.resp.token \in DOMAIN hist.issued
    /\ answer.resp.token \notin DOMAIN sessionStore
    /\ sessionStore # EmptyStore

\* C22: every stored record has the fields ip, hostname and expiresAt only
\* and is determined by the host and identity of its attempt and its
\* issuance time; two records issued at the same time for the same host and
\* identity are equal whatever secrets their attempts supplied; and the data
\* of a successful validation is determined in the same way.
C22_SecretNotStored ==
    /\ \A tok \in DOMAIN sessionStore :
          /\ DOMAIN sessionStore[tok] = {"ip", "hostname", "expiresAt"}
          /\ sessionStore[tok] = SessionData(auth[tok].inp.ip, auth[tok].inp.hostname,
                                             ExpiryFrom(hist.issuedAt[tok]))
          /\ \A other \in DOMAIN sessionStore :
                (/\ auth[other].inp.ip = auth[tok].inp.ip
                 /\ auth[other].inp.hostname = auth[tok].inp.hostname
                 /\ hist.issuedAt[other] = hist.issuedAt[tok])
                => sessionStore[other] = sessionStore[tok]
    /\ (answer.op = "validate" /\ answer.resp.status = 200)
       => LET tok == answer.resp.token
          IN  answer.resp.data = SessionData(auth[tok].inp.ip, auth[tok].inp.hostname,
                                             ExpiryFrom(hist.issuedAt[tok]))

C22_Witness ==
    /\ {1, 2} \subseteq DOMAIN sessionStore
    /\ auth[1].inp.password # auth[2].inp.password
    /\ sessionStore[1] = sessionStore[2]
    /\ answer.op = "validate" /\ answer.resp.status = 200
    /\ answer.resp.token = 2
    /\ hist.revoked # {}

\* C23: for every accepted trigger of the isolated route the run name used
\* in the folder name and in the guard key has no character outside
\* [a-zA-Z0-9_-] and at most 50 characters.
C23_RunNameClean ==
    \A r \in Requests :
        (req[r].resp = 200 /\ req[r].inp.route = "isolated")
        => /\ \A i \in 1 .. Len(req[r].runName) : req[r].runName[i] \notin UnsafeChars
           /\ Len(req[r].runName) <= MAX_NAME

\* C24: the cleaned name of every descriptor whose run name is a string is
\* sanitize of the raw name, and sanitizing it again returns it unchanged.
C24_SanitizeFixedPoint ==
    \A r \in Requests :
        LET f == req[r].inp.file IN
        (req[r].pc = "responded" /\ f.present /\ f.parsable /\ RawRunName(f).t = "str")
        => /\ req[r].runName = Sanitize(RawRunName(f).s)
           /\ Sanitize(req[r].runName) = req[r].runName
           /\ Sanitize(Sanitize(RawRunName(f).s)) = Sanitize(RawRunName(f).s)

C24_Witness ==
    /\ req[1].pc = "responded"
    /\ Len(RawRunName(req[1].inp.file).s) > MAX_NAME
    /\ Len(req[1].runName) = MAX_NAME
    /\ \E i \in 1 .. MAX_NAME : req[1].runName[i] = "_"

RECURSIVE Segments(_)
Segments(path) ==
    IF path = <<>> THEN <<>>
    ELSE LET cut == {i \in 1 .. Len(path) : path[i] = "/"}
             first == IF cut = {} THEN Len(path) + 1
                      ELSE CHOOSE i \in cut : \A k \in cut : i <= k
             rest == IF first >= Len(path) THEN <<>>
                     ELSE Segments(SubSeq(path, first + 1, Len(path)))
         IN  <<SubSeq(path, 1, first - 1)>> \o rest

\* The directory an absolute path names on the remote host: empty and '.'
\* segments are dropped, '..' steps to the parent.
RECURSIVE Walk(_, _)
Walk(segs, at) ==
    IF segs = <<>> THEN at
    ELSE IF Head(segs) \in {<<>>, <<".">>} THEN Walk(Tail(segs), at)
    ELSE IF Head(segs) = <<".", ".">>
         THEN Walk(Tail(segs), IF at = <<>> THEN at ELSE SubSeq(at, 1, Len(at) - 1))
    ELSE Walk(Tail(segs), Append(at, Head(segs)))

\* C26: for every accepted trigger of the isolated route the isolated path
\* names a direct child of /home/<hostname>: the folder name, under the
\* base directory of the request's identity.
C26_PathConfined ==
    \A r \in Requests :
        (req[r].resp = 200 /\ req[r].inp.route = "isolated")
        => Walk(Segments(PlanOf(req[r]).path), <<>>)
             = <<<<"home">>, req[r].inp.conn.hostname, PlanOf(req[r]).folder>>

\* C27: two distinct accepted triggers of the isolated route whose runs are
\* in flight at the same time have different isolated paths.
C27_OwnDirectory ==
    \A a, b \in Requests :
        (/\ a # b
         /\ InFlight(req[a]) /\ req[a].inp.route = "isolated"
         /\ InFlight(req[b]) /\ req[b].inp.route = "isolated")
        => PlanOf(req[a]).path # PlanOf(req[b]).path

\* The steps the pipeline is made of, without the warning echo.
Steps ==
    <<"mkdir", "cp", "cd", "echo created", "echo copied", "echo pwd",
      "echo starting", "source">>
NotWarning(c) == c # "echo Warning"
ShellDone(q) == q.shell.pos > Len(FullCommand)
StepsRun(q) == {q.shell.ran[i] : i \in 1 .. Len(q.shell.ran)}
Succeeded(q) == StepsRun(q) \ q.shell.failed
LastType(q) == q.out[Len(q.out)].type

C29_CopyFailureTolerated ==
    \A r \in Requests :
        LET q == req[r] IN
        (/\ ShellDone(q)
         /\ "mkdir" \in Succeeded(q)
         /\ "cp" \in q.shell.failed
         /\ q.shell.failed \subseteq {"cp", "source"})
        => /\ q.shell.ran = <<"mkdir", "cp", "echo Warning", "cd", "echo created",
                              "echo copied", "echo pwd", "echo starting", "source">>
           /\ \E i \in 1 .. Len(q.out) :
                  q.out[i].type = "stdout" /\ q.out[i].arg = <<"echo Warning">>
           /\ q.chan = "closed"
              => (LastType(q) = "error"
                  <=> ("source" \in q.shell.failed \/ q.code = NoExitStatus))

C29_Witness ==
    /\ req[1].chan = "closed"
    /\ req[1].shell.failed = {"cp"}
    /\ "source" \in StepsRun(req[1])
    /\ LastType(req[1]) = "success"

\* C30: for every combination of exit statuses of the other steps the
\* terminal event is success exactly when the setup script does not exit
\* with a non-zero status.
C30_OnlyScriptMatters ==
    \A r \in Requests :
        (req[r].chan = "closed" /\ ShellDone(req[r]))
        => (LastType(req[r]) = "success" <=> "source" \notin req[r].shell.failed)


----------------------------------------------------------------------------
\* C31: every guard entry written by an accepted trigger is eventually
\* removed, and no entry is held once 30 s have passed since the last
\* acceptance of its key, whatever became of the run.
C31_EvictionBoundsMemory ==
    /\ [](\A rt \in Routes : \A k \in DOMAIN activeExecutions[rt] :
            now <= activeExecutions[rt][k] + EVICT_MS)
    /\ \A rt \in Routes : \A in \in RunInputs :
            LET k == UserKey(in, DEFAULT_RUN)
            IN  (k \in DOMAIN activeExecutions[rt])
                    ~> (k \notin DOMAIN activeExecutions[rt])

\* A run that ended in a connection error, its entry gone at the horizon.
C31_Witness ==
    \E r \in RunRequests :
        /\ req[r].resp = 200
        /\ req[r].fault
        /\ now >= req[r].at + EVICT_MS
        /\ req[r].key \notin DOMAIN activeExecutions[req[r].inp.route]


----------------------------------------------------------------------------
\* C32: a caller who stops reading or disconnects leaves the remote side as
\* it is (client, command stream, close request, end calls); a close of the
\* command stream is requested only in a step that detects the sentinel, and
\* the transport is ended or lost only with the command stream's close, an
\* exec error or a connection error.
C32_CancelLeavesRemote ==
    [][\A r \in Requests :
        LET q == req[r]
            n == req'[r]
            fresh == SubSeq(n.sent, Len(q.sent) + 1, Len(n.sent))
        IN  /\ n.caller # q.caller
                => /\ n.client = q.client /\ n.chan = q.chan /\ n.code = q.code
                   /\ n.closeRequested = q.closeRequested
                   /\ n.endCalls = q.endCalls /\ n.fault = q.fault
            /\ (n.closeRequested /\ ~q.closeRequested)
                => SentinelSeen(Trim(fresh))
            /\ n.endCalls # q.endCalls
                => /\ q.chan \in {"pending", "open"}
                   /\ n.chan = IF q.chan = "open" THEN "closed" ELSE "failed"
            /\ (n.client # q.client /\ n.client \in {"ended", "lost"})
                => (n.endCalls # q.endCalls \/ (n.fault /\ n.client = "lost"))
      ]_vars

\* The caller has disconnected, output that arrived afterwards was refused
\* by the writer, and the command ran on to its exit status.
C32_Witness ==
    /\ req[1].caller = "gone"
    /\ req[1].rejected > 1
    /\ req[1].sent # <<>>
    /\ ~req[1].closeRequested
    /\ req[1].chan = "closed"
    /\ req[1].code = 0


----------------------------------------------------------------------------
\* C33: a transport that dies silently before the request has ended leads
\* to the request's terminal error event.
C33_DeadTransportDetected ==
    \A r \in Requests :
        (req[r].silent /\ req[r].resp = 200)
            ~> (\E i \in DOMAIN req[r].out : req[r].out[i].type = "error")


----------------------------------------------------------------------------
\* C34: a connect attempt still short of ready when the bound has passed
\* ends in the timeout error; a request that reached ready never gets one;
\* the passing of time and the firing of a timer change no request; and a
\* command that is executing is ended only by its stream's close or by a
\* transport error.
C34_BoundCoversHandshakeOnly ==
    /\ \A r \in Requests :
          (req[r].client = "connecting" /\ now >= req[r].at + READY_TIMEOUT)
              ~> (\E i \in DOMAIN req[r].out :
                     req[r].out[i] = Ev("error", "SSH connection error", <<"timeout">>))
    /\ [](\A r \in Requests :
             req[r].faultKind = "timeout" => req[r].chan = "none")
    /\ [][/\ now' # now => req' = req
          /\ (timers' # timers /\ timers' \subseteq timers) => req' = req
          /\ \A r \in Requests :
                (req[r].chan = "open" /\ req'[r].resolved /\ ~req[r].resolved)
                    => (req'[r].chan = "closed" \/ req'[r].fault)]_vars

\* A command still executing when every timer of the program has passed:
\* 30 s after the acceptance, the eviction timer fired, no terminal event.
C34_Witness ==
    /\ req[1].chan = "open"
    /\ req[1].client = "ready"
    /\ now >= req[1].at + EVICT_MS
    /\ timers = {}
    /\ ~req[1].resolved
    /\ req[1].writer = "open"


----------------------------------------------------------------------------
\* C35: every keyboard-interactive request is answered with the secret when
\* a secret is available and the request has exactly one prompt, and with
\* the empty list otherwise; one connect attempt hands the secret to the
\* interactive fallback at most once.
C35_SecretAtMostOnce ==
    \A a \in Attempts :
        LET ans == auth[a].answers
        IN  /\ \A i \in DOMAIN ans :
                  ans[i].finish = IF auth[a].inp.password # <<>> /\ ans[i].prompts = 1
                                  THEN <<auth[a].inp.password>> ELSE <<>>
            /\ Cardinality({i \in DOMAIN ans : ans[i].finish # <<>>}) <= 1


----------------------------------------------------------------------------
\* C36: a guard entry written at time t is not removed before t + 30 s (so
\* the timer of an earlier acceptance leaves a later entry of its key alone).
C36_RemovedOnlyAtHorizon ==
    [][\A rt \in Routes : \A k \in DOMAIN activeExecutions[rt] :
          k \notin DOMAIN activeExecutions'[rt]
              => now >= activeExecutions[rt][k] + EVICT_MS]_vars


----------------------------------------------------------------------------
\* C37: a trigger is rejected as a duplicate only while an earlier accepted
\* run of its key has not yet emitted its terminal event.
C37_RejectedOnlyWhileRunning ==
    [][\A r \in Requests :
          (Rejected(req'[r]) /\ ~Rejected(req[r]))
              => \E p \in Requests \ {r} :
                    SameRun(req[p], req'[r]) /\ InFlight(req[p])]_vars


----------------------------------------------------------------------------
\* C38: a trigger without host, identity or secret is answered 400 in a step
\* that leaves the guard map and the eviction timers as they were, and is
\* never accepted; every duplicate rejection is due to the entry of an
\* accepted trigger that had its host, identity and secret.
C38_MalformedLeavesGuard ==
    /\ [](\A r \in Requests :
             (req[r].pc = "responded" /\ \E f \in {"ip", "hostname", "password"} :
                                            req[r].inp.conn[f] = <<>>)
                 => /\ req[r].resp = 400
                    /\ \A t \in timers : t.by # r)
    /\ [][\A r \in Requests :
            /\ (req'[r].resp = 400 /\ req[r].resp # 400)
                  => (activeExecutions' = activeExecutions /\ timers' = timers)
            /\ (Rejected(req'[r]) /\ ~Rejected(req[r]))
                  => \E p \in Requests \ {r} :
                        /\ Accepted(req[p]) /\ SameRun(req[p], req'[r])
                        /\ req[p].at = req'[r].seen
                        /\ \A f \in {"ip", "hostname", "password"} :
                              req[p].inp.conn[f] # <<>>]_vars

\* A trigger without its secret was answered 400 and the valid trigger for
\* the same identity that followed at once was accepted.
C38_Witness ==
    /\ req[1].resp = 400
    /\ req[1].inp.conn = Conn(HOST, USER, <<>>)
    /\ req[2].resp = 200
    /\ req[2].inp.route = req[1].inp.route
    /\ req[2].key = UserKey(req[1].inp, req[1].runName)
    /\ req[2].at = 0
    /\ req[2].seen = Never


----------------------------------------------------------------------------
\* C39: two triggers of the isolated route with different pairs (identity,
\* sanitized run name) have different guard keys, and a trigger is rejected
\* as a duplicate only because of an accepted trigger of its own pair.
C39_KeysInjective ==
    \A r, p \in Requests :
        (req[r].resp \in {200, 429} /\ req[p].resp \in {200, 429}
         /\ req[r].inp.route = "isolated" /\ req[p].inp.route = "isolated")
            => /\ req[r].key = req[p].key
                    => (req[r].inp.conn.hostname = req[p].inp.conn.hostname
                        /\ req[r].runName = req[p].runName)
               /\ (Rejected(req[r]) /\ Accepted(req[p]) /\ req[r].seen = req[p].at
                   /\ req[r].key = req[p].key)
                    => (req[r].inp.conn.hostname = req[p].inp.conn.hostname
                        /\ req[r].runName = req[p].runName)


----------------------------------------------------------------------------
\* C40: whatever the order of a request's callbacks, no event is written to
\* its writer after the writer was closed, and the writer is closed at most
\* once.
C40_NoWriteAfterClose ==
    \A r \in Requests :
        /\ req[r].rejected = 0
        /\ req[r].closeCalls <= 1

====
